---- MODULE Spec2Model ----
(***************************************************************************)
(* Model of the books.toscrape.com crawler (src/scripts/scrapy.py) and of  *)
(* the read-only query layer that serves its dataset (src/api).            *)
(*                                                                         *)
(* Text that the code searches, splits or strips (class names, breadcrumb  *)
(* entries, page titles, price text, category labels) is a sequence of     *)
(* one-character strings; text that is only joined or copied is a string.  *)
(***************************************************************************)
EXTENDS Integers, Sequences, FiniteSets, TLC

VARIABLES
    pc,               \* position of the run: crawl loop, process_url, export, api
    current_page,     \* crawl: current_page
    response,         \* crawl: response and products of the controller's own GET
    items,            \* WebCrawler.items
    log,              \* every GET issued through self.client, in order
    terminal,         \* how the crawl loop ended: "Done" or "Aborted"
    written,          \* data/extracted_data.csv
    api_result,       \* outcome of the last query-layer request
    origin,           \* page each accumulated item was extracted from
    processed,        \* process_url call just returned: page parsed, label, products found
    rating_classes,   \* process_url: class list of the rating marker
    rating,           \* process_url: rating
    section_response, \* get_section: what GET url returns
    section           \* get_section: returned label

vars == <<pc, current_page, response, items, log, terminal, written,
          api_result, origin, processed, rating_classes, rating,
          section_response, section>>

runVars == <<current_page, response, items, log, terminal, written,
             api_result, origin, processed>>

pureVars == <<rating_classes, rating, section_response, section>>

None == "None"

----------------------------------------------------------------------------
(* Bounds *)

MaxPage == 3
MaxProducts == 2
MaxClasses == 3
MaxCrumbs == 2

----------------------------------------------------------------------------
(* Python str operations on character sequences *)

\* sub in s
Contains(sub, s) ==
    \E i \in 1..(Len(s) - Len(sub) + 1) :
        \A k \in 1..Len(sub) : s[i + k - 1] = sub[k]

IsSpace(c) == c \in {" ", "\t", "\n"}

RECURSIVE LStrip(_)
LStrip(s) ==
    IF s # <<>> /\ IsSpace(Head(s)) THEN LStrip(Tail(s)) ELSE s

RECURSIVE RStrip(_)
RStrip(s) ==
    IF s # <<>> /\ IsSpace(s[Len(s)]) THEN RStrip(SubSeq(s, 1, Len(s) - 1)) ELSE s

\* s.strip()
Strip(s) == RStrip(LStrip(s))

\* s.split(d) for a one-character delimiter d
RECURSIVE Split(_, _)
Split(s, d) ==
    IF \E i \in 1..Len(s) : s[i] = d
    THEN LET i == CHOOSE j \in 1..Len(s) : s[j] = d /\ \A k \in 1..(j - 1) : s[k] # d
         IN  <<SubSeq(s, 1, i - 1)>> \o Split(SubSeq(s, i + 1, Len(s)), d)
    ELSE <<s>>

----------------------------------------------------------------------------
(* WebCrawler.parse_rating and the rating loop of process_url *)

\* ratings = {'One': 1, 'Two': 2, 'Three': 3, 'Four': 4, 'Five': 5}, in dict order
ratings ==
    << [key |-> <<"O", "n", "e">>,   value |-> 1],
       [key |-> <<"T", "w", "o">>,   value |-> 2],
       [key |-> <<"T", "h", "r", "e", "e">>, value |-> 3],
       [key |-> <<"F", "o", "u", "r">>,  value |-> 4],
       [key |-> <<"F", "i", "v", "e">>,  value |-> 5] >>

star_rating == <<"s", "t", "a", "r", "-", "r", "a", "t", "i", "n", "g">>

\* faulty variant: the key must equal the class name instead of occurring in it
RECURSIVE parse_rating_exact(_, _)
parse_rating_exact(class_name, i) ==
    IF i > Len(ratings) THEN 0
    ELSE IF ratings[i].key = class_name THEN ratings[i].value
    ELSE parse_rating_exact(class_name, i + 1)

\* for key, value in ratings.items(): if key in class_name: return value
RECURSIVE parse_rating_from(_, _)
parse_rating_from(class_name, i) ==
    IF i > Len(ratings) THEN 0
    ELSE IF Contains(ratings[i].key, class_name) THEN ratings[i].value
    ELSE parse_rating_from(class_name, i + 1)

parse_rating(class_name) == parse_rating_from(class_name, 1)

\* rating = 0; for cls in rating_classes: if cls != 'star-rating': parse; break
RECURSIVE rating_loop(_)
rating_loop(classes) ==
    IF classes = <<>> THEN 0
    ELSE IF Head(classes) # star_rating THEN parse_rating(Head(classes))
    ELSE rating_loop(Tail(classes))

\* rating_tag = product.find('p', class_='star-rating'); present is FALSE
\* when find returns None, else class is rating_tag.get('class', [])
NoTag == [present |-> FALSE, class |-> <<>>]
Tag(classes) == [present |-> TRUE, class |-> classes]

extract_rating(rating_tag) ==
    IF rating_tag.present THEN rating_loop(rating_tag.class) ELSE 0

----------------------------------------------------------------------------
(* WebCrawler.get_section *)

General == <<"G", "e", "n", "e", "r", "a", "l">>
Marker == <<"B", "o", "o", "k", "s", " ", "t", "o", " ", "S", "c", "r", "a", "p", "e">>

\* What GET url gives get_section.  raises names the call of the try block
\* that raises (None when none does): "get" (transport error or timeout),
\* "raise_for_status" (non-success status) or "parse".  has_nav tells whether
\* the page has a ul.breadcrumb and breadcrumb lists the texts of its li
\* entries; has_title tells whether it has a title element, title is its text.
Failed(call) ==
    [raises |-> call, has_nav |-> FALSE, breadcrumb |-> <<>>,
     has_title |-> FALSE, title |-> <<>>]

Page(has_nav, breadcrumb, has_title, title) ==
    [raises |-> None, has_nav |-> has_nav, breadcrumb |-> breadcrumb,
     has_title |-> has_title, title |-> title]

\* faulty variant: a breadcrumb with a single entry is taken too
get_section_any_crumb(resp) ==
    IF resp.raises # None THEN General
    ELSE IF resp.has_nav /\ Len(resp.breadcrumb) > 0
         THEN Strip(resp.breadcrumb[Len(resp.breadcrumb)])
    ELSE IF resp.has_title /\ Contains(Marker, resp.title)
            /\ Len(Split(resp.title, "|")) > 1
         THEN Strip(Split(resp.title, "|")[1])
    ELSE General

get_section(resp) ==
    IF resp.raises # None THEN General
    ELSE IF resp.has_nav /\ Len(resp.breadcrumb) > 1
         THEN Strip(resp.breadcrumb[Len(resp.breadcrumb)])
    ELSE IF resp.has_title /\ Contains(Marker, resp.title)
            /\ Len(Split(resp.title, "|")) > 1
         THEN Strip(Split(resp.title, "|")[1])
    ELSE General

----------------------------------------------------------------------------
(* WebCrawler.format_price *)

Digits == {"0", "1", "2", "3", "4", "5", "6", "7", "8", "9"}

DigitVal(c) ==
    CASE c = "0" -> 0 [] c = "1" -> 1 [] c = "2" -> 2 [] c = "3" -> 3
      [] c = "4" -> 4 [] c = "5" -> 5 [] c = "6" -> 6 [] c = "7" -> 7
      [] c = "8" -> 8 [] c = "9" -> 9

IsPriceChar(c) == c \in Digits \cup {"."}

\* re.sub(r'[^\d.]', '', raw_price)
CleanPrice(raw_price) == SelectSeq(raw_price, IsPriceChar)

\* float(s) raises ValueError unless s is digits with at most one '.'
IsFloatLiteral(s) ==
    /\ \E i \in 1..Len(s) : s[i] \in Digits
    /\ Cardinality({i \in 1..Len(s) : s[i] = "."}) <= 1

RECURSIVE NatOf(_)
NatOf(s) == IF s = <<>> THEN 0 ELSE 10 * NatOf(SubSeq(s, 1, Len(s) - 1)) + DigitVal(s[Len(s)])

\* float(s), in hundredths (the prices drawn have at most two decimals)
FloatOf(s) ==
    LET parts == Split(s, ".")
        frac  == IF Len(parts) > 1 THEN SubSeq(parts[2] \o <<"0", "0">>, 1, 2) ELSE <<"0", "0">>
    IN  100 * NatOf(parts[1]) + NatOf(frac)

format_price(raw_price) == FloatOf(CleanPrice(raw_price))

----------------------------------------------------------------------------
(* Listing pages *)

target_url == "https://books.toscrape.com/"

\* url of the crawl loop for current_page
page_url(n) ==
    IF n = 1 THEN target_url
    ELSE target_url \o "catalogue/page-" \o ToString(n) \o ".html"

\* urljoin(self.target_url, relative)
urljoin(base, relative) == base \o relative

\* An article.product_pod.  h3a: the h3 and its link exist; image is
\* "no_container" (no div.image_container), "no_img" (container without img)
\* or "img"; rating_tag as above; instock/outofstock: the p markers exist.
FullProduct ==
    [h3a |-> TRUE, has_title_attr |-> TRUE, title_attr |-> "A Light in the Attic",
     text |-> "A Light in the ...", href |-> "catalogue/a-light-in-the-attic_1000/index.html",
     has_price |-> TRUE, price_text |-> <<"$", "5", "1", ".", "7", "7">>,
     rating_tag |-> Tag(<<star_rating, <<"T", "h", "r", "e", "e">>>>),
     image |-> "img", src |-> "media/cache/2c/da/a.jpg",
     instock |-> TRUE, instock_text |-> <<" ", "I", "n", " ", "s", "t", "o", "c", "k", " ">>, outofstock |-> FALSE]

\* only the title link and an empty image container
BareProduct ==
    [h3a |-> TRUE, has_title_attr |-> FALSE, title_attr |-> "",
     text |-> "Untitled", href |-> "catalogue/untitled_1/index.html",
     has_price |-> FALSE, price_text |-> <<>>,
     rating_tag |-> NoTag,
     image |-> "no_img", src |-> "",
     instock |-> FALSE, instock_text |-> <<>>, outofstock |-> FALSE]

\* no div.image_container at all
NoContainerProduct == [FullProduct EXCEPT !.image = "no_container", !.src = ""]

\* no h3
NoTitleProduct == [FullProduct EXCEPT !.h3a = FALSE]

ProductNodes == {FullProduct, BareProduct, NoContainerProduct, NoTitleProduct}

\* doc.find_all('article', class_='product_pod') of a fetched listing page
Docs == UNION { [1..k -> ProductNodes] : k \in 0..MaxProducts }

\* pages the category resolution may be given during a run
SectionPages ==
    { Failed("get"),
      Page(TRUE, <<<<"H", "o", "m", "e">>, <<>>>>, TRUE, <<"F", "o", "o", " ", "|", " ", "B", "o", "o", "k", "s", " ", "t", "o", " ", "S", "c", "r", "a", "p", "e">>) }

NoResponse == [ok |-> FALSE, products |-> 0]

----------------------------------------------------------------------------
(* WebCrawler.process_url: one product *)

\* the loop body raises (AttributeError on None, ValueError from float)
ItemRaises(product) ==
    \/ ~product.h3a
    \/ product.has_price /\ ~IsFloatLiteral(CleanPrice(product.price_text))
    \/ product.image = "no_container"

\* faulty variant: id = len(self.items)
item_data_from_zero(product, label, n) ==
    [id           |-> n,
     title        |-> IF product.has_title_attr THEN product.title_attr ELSE product.text,
     price        |-> IF product.has_price THEN format_price(product.price_text) ELSE 0,
     rating       |-> extract_rating(product.rating_tag),
     availability |-> IF product.instock THEN Strip(product.instock_text)
                      ELSE IF product.outofstock THEN <<"O", "u", "t", " ", "o", "f", " ", "s", "t", "o", "c", "k">>
                      ELSE <<"I", "n", " ", "s", "t", "o", "c", "k">>,
     category     |-> label,
     image_url    |-> IF product.image = "img" THEN urljoin(target_url, product.src) ELSE "",
     book_url     |-> urljoin(target_url, product.href)]

\* item_data for a product, n = len(self.items)
item_data(product, label, n) ==
    [id           |-> n + 1,
     title        |-> IF product.has_title_attr THEN product.title_attr ELSE product.text,
     price        |-> IF product.has_price THEN format_price(product.price_text) ELSE 0,
     rating       |-> extract_rating(product.rating_tag),
     availability |-> IF product.instock THEN Strip(product.instock_text)
                      ELSE IF product.outofstock THEN <<"O", "u", "t", " ", "o", "f", " ", "s", "t", "o", "c", "k">>
                      ELSE <<"I", "n", " ", "s", "t", "o", "c", "k">>,
     category     |-> label,
     image_url    |-> IF product.image = "img" THEN urljoin(target_url, product.src) ELSE "",
     book_url     |-> urljoin(target_url, product.href)]

----------------------------------------------------------------------------
(* The dataset file: DataFrame.to_csv and pandas.read_csv *)

DigitChar(d) ==
    CASE d = 0 -> "0" [] d = 1 -> "1" [] d = 2 -> "2" [] d = 3 -> "3"
      [] d = 4 -> "4" [] d = 5 -> "5" [] d = 6 -> "6" [] d = 7 -> "7"
      [] d = 8 -> "8" [] d = 9 -> "9"

RECURSIVE TextOfNat(_)
TextOfNat(n) ==
    IF n < 10 THEN <<DigitChar(n)>> ELSE TextOfNat(n \div 10) \o <<DigitChar(n % 10)>>

\* a float (in hundredths) as to_csv prints it
TextOfFloat(h) ==
    TextOfNat(h \div 100) \o <<".">> \o
    (IF h % 10 = 0 THEN <<DigitChar((h % 100) \div 10)>>
     ELSE <<DigitChar((h % 100) \div 10), DigitChar(h % 10)>>)

\* one line of the file written by df.to_csv(output_path, index=False)
to_csv_row(item) ==
    [id           |-> TextOfNat(item.id),
     title        |-> item.title,
     price        |-> TextOfFloat(item.price),
     rating       |-> TextOfNat(item.rating),
     availability |-> item.availability,
     category     |-> item.category,
     image_url    |-> item.image_url,
     book_url     |-> item.book_url]

to_csv(rows) == [i \in 1..Len(rows) |-> to_csv_row(rows[i])]

\* a text cell as read_csv returns it: an empty field is NaN
Cell(text, empty) == [nan |-> text = empty, v |-> text]

\* one record of load_books_df(): read_csv, then astype on id, price, rating
read_csv_row(line) ==
    [id           |-> NatOf(line.id),
     title        |-> Cell(line.title, ""),
     price        |-> FloatOf(line.price),
     rating       |-> NatOf(line.rating),
     availability |-> Cell(line.availability, <<>>),
     category     |-> Cell(line.category, <<>>),
     image_url    |-> Cell(line.image_url, ""),
     book_url     |-> Cell(line.book_url, "")]

\* a missing file is an empty frame
load_books_df(file) ==
    IF ~file.exists THEN <<>>
    ELSE [i \in 1..Len(file.rows) |-> read_csv_row(file.rows[i])]

----------------------------------------------------------------------------
(* The run: WebCrawler.crawl, process_url, export_data *)

NoFile == [exists |-> FALSE, rows |-> <<>>]

\* no page parsed by process_url in the iteration that just ended (its GET
\* failed), or the next iteration has begun
NoPage == [page |-> 0, label |-> <<>>, found |-> 0]

CrawlIdle ==
    /\ current_page = 1
    /\ response = NoResponse
    /\ items = <<>>
    /\ log = <<>>
    /\ terminal = None
    /\ written = NoFile
    /\ api_result = None
    /\ origin = <<>>
    /\ processed = NoPage

Init ==
    /\ CrawlIdle
    /\ pc = "crawl_get"
    /\ rating_classes = NoTag
    /\ rating = 0
    /\ section_response = Failed("get")
    /\ section = <<>>

Get(by, n) == [by |-> by, url |-> page_url(n)]

\* crawl: response = self.client.get(url); response.raise_for_status();
\* products = doc.find_all(...).  Of the document the loop only uses the
\* product nodes found, and of those only how many there are.
\* The site has fewer than MaxPage listing pages with products.
CrawlGet ==
    /\ pc = "crawl_get"
    /\ log' = Append(log, Get("crawl", current_page))
    /\ \/ response' = [ok |-> FALSE, products |-> 0]
       \/ \E n \in 0..MaxProducts :
            /\ n > 0 => current_page < MaxPage
            /\ response' = [ok |-> TRUE, products |-> n]
    /\ pc' = "crawl_check"
    /\ processed' = NoPage
    /\ UNCHANGED <<current_page, items, terminal, written, api_result,
                   origin, pureVars>>

\* faulty variant: an empty page does not end the loop
CrawlCheckNoBreak ==
    /\ pc = "crawl_check"
    /\ IF ~response.ok
       THEN /\ terminal' = "Aborted"
            /\ pc' = "crawl_end"
       ELSE /\ terminal' = terminal
            /\ pc' = "process_url"
    /\ UNCHANGED <<current_page, response, items, log, written, api_result,
                   origin, processed, pureVars>>

\* crawl: except RequestException: break / if not products: break /
\* else self.process_url(url)
CrawlCheck ==
    /\ pc = "crawl_check"
    /\ IF ~response.ok
       THEN /\ terminal' = "Aborted"
            /\ pc' = "crawl_end"
       ELSE IF response.products = 0
       THEN /\ terminal' = "Done"
            /\ pc' = "crawl_end"
       ELSE /\ terminal' = terminal
            /\ pc' = "process_url"
    /\ UNCHANGED <<current_page, response, items, log, written, api_result,
                   origin, processed, pureVars>>

\* faulty variant: the page's label is not the one given to the items
RECURSIVE append_products_unlabelled(_, _, _)
append_products_unlabelled(acc, prods, label) ==
    IF prods = <<>> \/ ItemRaises(Head(prods)) THEN acc
    ELSE append_products_unlabelled(
             Append(acc, item_data(Head(prods), General, Len(acc))),
             Tail(prods), label)

\* process_url: for product in products, until one raises (the except of
\* process_url ends the loop and keeps what was appended)
RECURSIVE append_products(_, _, _)
append_products(acc, prods, label) ==
    IF prods = <<>> \/ ItemRaises(Head(prods)) THEN acc
    ELSE append_products(Append(acc, item_data(Head(prods), label, Len(acc))),
                         Tail(prods), label)

\* process_url(url), then current_page += 1 in crawl.  process_url does its
\* own GET of the page (a failure is printed and swallowed), get_section(url)
\* does a third GET, and the products of the re-fetched document are appended.
ProcessUrl ==
    /\ pc = "process_url"
    /\ \/ /\ log' = Append(log, Get("process_url", current_page))
          /\ processed' = NoPage
          /\ UNCHANGED <<items, origin>>
       \/ \E doc \in Docs, sr \in SectionPages :
            LET current_section == get_section(sr)
                appended == append_products(items, doc, current_section)
            IN  /\ log' = log \o <<Get("process_url", current_page),
                                   Get("get_section", current_page)>>
                /\ processed' = [page  |-> current_page,
                                  label |-> current_section,
                                  found |-> Len(doc)]
                /\ items' = appended
                /\ origin' = origin \o [i \in 1..(Len(appended) - Len(items)) |-> current_page]
    /\ current_page' = current_page + 1
    /\ response' = NoResponse
    /\ pc' = "crawl_get"
    /\ UNCHANGED <<terminal, written, api_result, pureVars>>

\* faulty variant: an empty accumulator is written too
export_data_always ==
    /\ pc = "crawl_end"
    /\ written' = [exists |-> TRUE, rows |-> to_csv(items)]
    /\ pc' = "exported"
    /\ UNCHANGED <<current_page, response, items, log, terminal, api_result,
                   origin, processed, pureVars>>

\* run: crawler.export_data() after crawl() returned
export_data ==
    /\ pc = "crawl_end"
    /\ written' = IF items = <<>> THEN written
                  ELSE [exists |-> TRUE, rows |-> to_csv(items)]
    /\ pc' = "exported"
    /\ UNCHANGED <<current_page, response, items, log, terminal, api_result,
                   origin, processed, pureVars>>

----------------------------------------------------------------------------
(* The query layer: BookOut, list_books, get_book *)

\* BookOut(**row) validates: str fields reject NaN (a float), rating has
\* ge=1, le=5; id int and price float are what astype produced
BookOut(row) ==
    /\ ~row.title.nan
    /\ row.rating >= 1 /\ row.rating <= 5
    /\ ~row.availability.nan
    /\ ~row.category.nan
    /\ ~row.image_url.nan
    /\ ~row.book_url.nan

\* df.sort_values("id")
RECURSIVE sort_values_id(_)
sort_values_id(df) ==
    IF df = <<>> THEN <<>>
    ELSE LET m == CHOOSE i \in 1..Len(df) :
                    \A j \in 1..Len(df) :
                        df[i].id < df[j].id \/ (df[i].id = df[j].id /\ i <= j)
             rest == [k \in 1..(Len(df) - 1) |-> IF k < m THEN df[k] ELSE df[k + 1]]
         IN  <<df[m]>> \o sort_values_id(rest)

Min(a, b) == IF a < b THEN a ELSE b

\* df.iloc[skip: skip + limit]
iloc(df, skip, limit) == SubSeq(df, skip + 1, Min(skip + limit, Len(df)))

MaxSkip == 1
MaxLimit == 2

list_books ==
    /\ pc = "exported"
    /\ \E skip \in 0..MaxSkip, limit \in 1..MaxLimit :
         LET df == iloc(sort_values_id(load_books_df(written)), skip, limit)
         IN  api_result' = IF \A i \in 1..Len(df) : BookOut(df[i])
                           THEN "books" ELSE "validation_error"
    /\ UNCHANGED <<pc, current_page, response, items, log, terminal,
                   written, origin, processed, pureVars>>

get_book ==
    /\ pc = "exported"
    /\ \E book_id \in 1..(Len(written.rows) + 1) :
         LET df  == load_books_df(written)
             row == SelectSeq(df, LAMBDA r : r.id = book_id)
         IN  api_result' = IF row = <<>> THEN "not_found"
                           ELSE IF BookOut(row[1]) THEN "book"
                           ELSE "validation_error"
    /\ UNCHANGED <<pc, current_page, response, items, log, terminal,
                   written, origin, processed, pureVars>>

----------------------------------------------------------------------------

(* Specification of the query layer over any dataset a run can write *)

\* labels process_url can receive from get_section during a run
Labels == { get_section(sr) : sr \in SectionPages }

\* the accumulators of a run, up to MaxRows items: products that did not
\* raise, numbered as they were appended
MaxRows == 3

ItemLists ==
    UNION { { [i \in 1..k |-> item_data(ps[i], ls[i], i - 1)] :
                ps \in [1..k -> {p \in ProductNodes : ~ItemRaises(p)}],
                ls \in [1..k -> Labels] } : k \in 0..MaxRows }

\* the files export_data leaves behind
Datasets ==
    { IF its = <<>> THEN NoFile ELSE [exists |-> TRUE, rows |-> to_csv(its)] :
        its \in ItemLists }

InitApi ==
    /\ current_page = 1
    /\ response = NoResponse
    /\ items = <<>>
    /\ log = <<>>
    /\ terminal = None
    /\ written \in Datasets
    /\ api_result = None
    /\ origin = <<>>
    /\ processed = NoPage
    /\ pc = "exported"
    /\ rating_classes = NoTag
    /\ rating = 0
    /\ section_response = Failed("get")
    /\ section = <<>>

NextApi == list_books \/ get_book

SpecApi == InitApi /\ [][NextApi]_vars

----------------------------------------------------------------------------
(* Specification of a run of the crawler *)

Next ==
    \/ CrawlGet
    \/ CrawlCheck
    \/ ProcessUrl
    \/ export_data

Spec == Init /\ [][Next]_vars

\* the run is sequential and every step returns: nothing else is scheduled
FairSpec == Spec /\ WF_vars(Next)

\* every file a run writes is one the query layer is specified over
WrittenInDatasets ==
    /\ written.exists <=> written.rows # <<>>
    /\ \A i \in 1..Len(written.rows) :
         \E p \in ProductNodes, l \in Labels :
            /\ ~ItemRaises(p)
            /\ written.rows[i] = to_csv_row(item_data(p, l, i - 1))



----------------------------------------------------------------------------
(* Specification of the rating extraction on its own: any rating marker *)

ClassNames ==
    { star_rating, <<"T", "h", "r", "e", "e">>, <<"O", "n", "e">>, <<"b", "i", "g">>, <<"x", "F", "i", "v", "e", "x">>, <<"F", "o", "u", "r", "T", "w", "o">> }

SeqsUpTo(S, n) == UNION { [1..k -> S] : k \in 0..n }

\* find('p', class_='star-rating') only returns a tag that has that class
RatingTags ==
    { NoTag } \cup
    { Tag(c) : c \in { d \in SeqsUpTo(ClassNames, MaxClasses) :
                          \E j \in 1..Len(d) : d[j] = star_rating } }

InitRating ==
    /\ CrawlIdle
    /\ pc = "rating_in"
    /\ rating_classes \in RatingTags
    /\ rating = 0
    /\ section_response = Failed("get")
    /\ section = <<>>

ExtractRating ==
    /\ pc = "rating_in"
    /\ rating' = extract_rating(rating_classes)
    /\ pc' = "rating_out"
    /\ UNCHANGED <<runVars, rating_classes, section_response, section>>

NextRating == ExtractRating

SpecRating == InitRating /\ [][NextRating]_vars

----------------------------------------------------------------------------
(* Specification of get_section on its own: any page *)

CrumbTexts == { <<"H", "o", "m", "e">>, <<" ", "P", "o", "e", "t", "r", "y", " ">>, <<>> }

Titles ==
    { <<"F", "o", "o", " ", "|", " ", "B", "o", "o", "k", "s", " ", "t", "o", " ", "S", "c", "r", "a", "p", "e">>, <<" ", "|", " ", "B", "o", "o", "k", "s", " ", "t", "o", " ", "S", "c", "r", "a", "p", "e">>, <<"B", "o", "o", "k", "s", " ", "t", "o", " ", "S", "c", "r", "a", "p", "e">>,
      <<"F", "o", "o", " ", "|", " ", "B", "a", "r">>, <<"A", " ", "|", " ", "B", " ", "|", " ", "B", "o", "o", "k", "s", " ", "t", "o", " ", "S", "c", "r", "a", "p", "e">> }

SectionResponses ==
    { Failed(c) : c \in {"get", "raise_for_status", "parse"} } \cup
    { Page(n, b, t, x) :
        n \in {TRUE}, b \in SeqsUpTo(CrumbTexts, MaxCrumbs),
        t \in {TRUE}, x \in Titles } \cup
    { Page(FALSE, <<>>, TRUE, x) : x \in Titles } \cup
    { Page(TRUE, b, FALSE, <<>>) : b \in SeqsUpTo(CrumbTexts, MaxCrumbs) } \cup
    { Page(FALSE, <<>>, FALSE, <<>>) }

InitSection ==
    /\ CrawlIdle
    /\ pc = "section_in"
    /\ rating_classes = NoTag
    /\ rating = 0
    /\ section_response \in SectionResponses
    /\ section = <<>>

GetSection ==
    /\ pc = "section_in"
    /\ section' = get_section(section_response)
    /\ pc' = "section_out"
    /\ UNCHANGED <<runVars, rating_classes, rating, section_response>>

NextSection == GetSection

SpecSection == InitSection /\ [][NextSection]_vars



----------------------------------------------------------------------------
(* Properties of a run *)

\* GETs of the crawl loop itself, in order
CrawlLog == SelectSeq(log, LAMBDA g : g.by = "crawl")

\* GETs of the url of page n, in order
GetsOf(n) == SelectSeq(log, LAMBDA g : g.url = page_url(n))

\* number of accumulated items extracted from page n
ItemsFrom(n) == Cardinality({i \in 1..Len(origin) : origin[i] = n})

\* C1: in every state of a run the accumulator holds ids 1..N in position
\* order, N = len(self.items): the i-th item has id i.
C1_IdsContiguous ==
    /\ Len(origin) = Len(items)
    /\ \A i \in 1..Len(items) : items[i].id = i

\* C1 witness: items of two pages, the second page's extraction stopped
\* part-way, ids still 1..N
C1_Witness ==
    /\ Len(items) >= 2
    /\ origin[1] = 1 /\ origin[Len(items)] = 2
    /\ processed.page = 2 /\ ItemsFrom(2) < processed.found

\* the file of a run that ended with accumulator its
FileOf(its) ==
    /\ written.exists
    /\ Len(written.rows) = Len(its)
    /\ \A i \in 1..Len(its) :
         /\ NatOf(written.rows[i].id) = its[i].id
         /\ written.rows[i].title = its[i].title
         /\ written.rows[i].category = its[i].category

\* the last GET of the run is the crawl loop's GET of page current_page
LastGetIsCrawlOfCurrentPage ==
    /\ log # <<>>
    /\ log[Len(log)] = [by |-> "crawl", url |-> page_url(current_page)]
    /\ Len(CrawlLog) = current_page

\* C2 as claimed: when the crawl loop's own fetch of page n fails the run is
\* Aborted, no later page is requested, and the dataset is still written.
C2_AbortedStillWrites ==
    terminal = "Aborted" =>
        /\ LastGetIsCrawlOfCurrentPage
        /\ pc = "exported" => FileOf(items)

\* C2 amended: when the crawl loop's own fetch of page n fails the run is
\* Aborted, nothing is requested and nothing is appended or removed
\* afterwards, and export_data writes the accumulated items exactly when
\* there is at least one; with an empty accumulator no file is written.
C2_AbortedKeepsItems ==
    /\ [](terminal = "Aborted" =>
            /\ LastGetIsCrawlOfCurrentPage
            /\ pc = "exported" =>
                 IF items = <<>> THEN written = NoFile ELSE FileOf(items))
    /\ [][(pc = "crawl_check" /\ ~response.ok) =>
            (terminal' = "Aborted" /\ items' = items /\ log' = log)]_vars
    /\ [][terminal = "Aborted" =>
            (terminal' = "Aborted" /\ items' = items /\ log' = log)]_vars

\* C2 witness: aborted on page 2, page 1's items written
C2_Witness ==
    /\ pc = "exported" /\ terminal = "Aborted"
    /\ current_page = 2
    /\ items # <<>> /\ FileOf(items)

\* url the claim gives for the j-th page
ClaimedUrl(j) ==
    IF j = 1 THEN "https://books.toscrape.com/"
    ELSE "https://books.toscrape.com/catalogue/page-" \o ToString(j) \o ".html"

EmptyPageFetched == pc = "crawl_check" /\ response.ok /\ response.products = 0

FetchFailed == pc = "crawl_check" /\ ~response.ok

\* C3: the crawl loop requests pages 1, 2, 3, ... in this order (the root,
\* then catalogue/page-n.html); the first page fetched with zero product
\* nodes ends the run as Done, nothing is appended for it and nothing is
\* requested after it; and once a page is empty or fails to fetch the crawl
\* terminates.
C3_SequentialUntilEmpty ==
    /\ [](/\ \A j \in 1..Len(CrawlLog) : CrawlLog[j].url = ClaimedUrl(j)
          /\ Len(CrawlLog) \in {current_page - 1, current_page}
          /\ terminal = "Done" =>
               /\ LastGetIsCrawlOfCurrentPage
               /\ ItemsFrom(current_page) = 0)
    /\ [][EmptyPageFetched => (terminal' = "Done" /\ items' = items)]_vars
    /\ [][terminal # None =>
            (terminal' = terminal /\ log' = log /\ items' = items
             /\ current_page' = current_page)]_vars
    /\ ((EmptyPageFetched \/ FetchFailed) ~> (terminal # None))

\* C3 witness: pages 1 and 2 had products, page 3 was empty, the run is Done
C3_Witness ==
    /\ terminal = "Done"
    /\ current_page = 3
    /\ Len(CrawlLog) = 3
    /\ items # <<>>

\* C4 as claimed: for every product node process_url finds on a page exactly
\* one record is appended, whatever sub-node is missing.
C4_OneRecordPerNode ==
    ItemsFrom(processed.page) = processed.found

\* pages process_url has parsed: get_section was called for them
Parsed(n) == \E j \in 1..Len(log) : log[j] = Get("get_section", n)

\* the items of the page process_url parsed last all carry its label
LabelIsCategory ==
    \A i \in 1..Len(items) :
        origin[i] = processed.page => items[i].category = processed.label

C6_CategoryNonEmpty ==
    \A i \in 1..Len(items) : items[i].category # <<>>

\* C9 as claimed: when page n+1 is requested the accumulator holds one record
\* for each product node the crawl loop saw on each of the pages 1..n, in
\* page order.
C9_AllSeenAppended ==
    [][(pc = "process_url" /\ pc' = "crawl_get") =>
          /\ Len(items') = Len(items) + response.products
          /\ SubSeq(items', 1, Len(items)) = items
          /\ \A i \in (Len(items) + 1)..Len(items') : origin'[i] = current_page]_vars

----------------------------------------------------------------------------
(* Properties of the rating extraction *)

\* indexes of the table's tokens that occur in class name c
TokensIn(c) == {t \in 1..Len(ratings) : Contains(ratings[t].key, c)}

\* indexes of the tokens that occur in some class of the list
TokensInList(classes) == UNION {TokensIn(classes[j]) : j \in 1..Len(classes)}

SetMin(S) == CHOOSE x \in S : \A y \in S : x <= y

\* C7 as claimed: the rating is 0 when no class of the marker contains a
\* token, the value of the token when exactly one token occurs in any class
\* at any position of the list, and always within 0..5.
C7_AnyPosition ==
    pc = "rating_out" =>
        LET T == TokensInList(rating_classes.class)
        IN  /\ rating \in 0..5
            /\ T = {} => rating = 0
            /\ (rating_classes.present /\ Cardinality(T) = 1) =>
                 rating = ratings[SetMin(T)].value

\* C7 amended: the rating is decided by the first class of the marker other
\* than 'star-rating': 0 when there is no marker, no such class, or that
\* class contains no token; otherwise the value of the first token in table
\* order that occurs in that class as a substring.  Always within 0..5.
C7_FirstOtherClass ==
    pc = "rating_out" =>
        LET others == SelectSeq(rating_classes.class, LAMBDA c : c # star_rating)
        IN  /\ rating \in 0..5
            /\ (~rating_classes.present \/ others = <<>>) => rating = 0
            /\ (rating_classes.present /\ others # <<>>) =>
                 IF TokensIn(others[1]) = {} THEN rating = 0
                 ELSE rating = ratings[SetMin(TokensIn(others[1]))].value

\* C7 witness: the token is a proper substring of the deciding class
C7_Witness ==
    /\ pc = "rating_out"
    /\ rating_classes.class = <<star_rating, <<"x", "F", "i", "v", "e", "x">>, <<"O", "n", "e">>>>
    /\ rating = 5

----------------------------------------------------------------------------
(* Properties of get_section *)

\* the portion of t before the first '|' (all of t when there is none)
BeforeBar(t) ==
    LET bars == {i \in 1..Len(t) : t[i] = "|"}
    IN  IF bars = {} THEN t ELSE SubSeq(t, 1, SetMin(bars) - 1)

HasBar(t) == \E i \in 1..Len(t) : t[i] = "|"

UsesBreadcrumb(r) == r.raises = None /\ r.has_nav /\ Len(r.breadcrumb) > 1

\* C8 as claimed: failure gives "General"; else a breadcrumb of more than
\* one entry gives its last entry's text; else a title containing the marker
\* gives the trimmed portion before the first '|'; else "General".
C8_Chain ==
    pc = "section_out" =>
        LET r == section_response
        IN  section =
              IF r.raises # None THEN General
              ELSE IF UsesBreadcrumb(r) THEN Strip(r.breadcrumb[Len(r.breadcrumb)])
              ELSE IF r.has_title /\ Contains(Marker, r.title) THEN Strip(BeforeBar(r.title))
              ELSE General

\* C8 amended: as claimed, except that the title step applies only when the
\* title contains the marker and at least one '|'; a title with the marker
\* but no '|' gives "General".
C8_ChainWithBar ==
    pc = "section_out" =>
        LET r == section_response
        IN  section =
              IF r.raises # None THEN General
              ELSE IF UsesBreadcrumb(r) THEN Strip(r.breadcrumb[Len(r.breadcrumb)])
              ELSE IF r.has_title /\ Contains(Marker, r.title) /\ HasBar(r.title)
                   THEN Strip(BeforeBar(r.title))
              ELSE General

\* C8 witness: a single breadcrumb entry, the title decides
C8_Witness ==
    /\ pc = "section_out"
    /\ section_response.has_nav /\ Len(section_response.breadcrumb) = 1
    /\ section_response.title = <<"F", "o", "o", " ", "|", " ", "B", "o", "o", "k", "s", " ", "t", "o", " ", "S", "c", "r", "a", "p", "e">>
    /\ section = <<"F", "o", "o">>

----------------------------------------------------------------------------
(* Properties of the query layer *)

\* C10 as claimed: every record a run can write is served: list_books and
\* get_book build a valid BookOut for every row.
C10_EveryRecordServed ==
    api_result # "validation_error"

====
